---- MODULE Spec2Model ----
(***************************************************************************)
(* A model of tlcache: the memory tier (SimpleCache), the disk tier        *)
(* (FileSystemCache) and the orchestrator (TLCache) with its memoizing     *)
(* decorator and its forced-refresh scope.                                 *)
(*                                                                         *)
(* Time.  time.time() is a float number of seconds.  The model counts time *)
(* in ticks, TicksPerSec ticks to the second, so that a timeout of a       *)
(* fraction of a second (the tests use 0.1) and the truncation int() of    *)
(* FileSystemCache.set are both there.  Every duration of the program is   *)
(* written in seconds and converted with Secs.                             *)
(*                                                                         *)
(* Values.  Cached values are opaque: pickle.dumps / pickle.loads are the  *)
(* codec the caches treat as a black box, and a value read back is the     *)
(* value written.  Python's None is the string "None"; it is also what get *)
(* returns for a key it does not find.  "0" stands for the falsy values    *)
(* that are not None (0, False, an empty container), "1" for a truthy one. *)
(***************************************************************************)
EXTENDS Integers, Sequences, FiniteSets, TLC

\* ------------------------------------------------------------- bounds
TicksPerSec == 4
StartSec == 1000
MaxTicks == 2
NumKeys == 2
NumThreads == 2
MemThreshold == 1
FsThreshold == 1
MaxNest == 2
MaxArgs == 2
NumStoreKeys == 4
StoreThreshold == 3

\* ------------------------------------------------- program constants
_DEFAULT_FILE_THRESHOLD == 100000
_DEFAULT_FILE_TIMEOUT == 86400
DEFAULT_TIMEOUT == 300
DEGRADED_CEILING == 5

Secs(s) == s * TicksPerSec

\* int(x) of a non-negative time: the whole seconds of it.
IntTrunc(x) == (x \div TicksPerSec) * TicksPerSec

Keys == 1..NumKeys
Threads == 1..NumThreads
NoThread == 0

None == "None"
NotInCache == "NotInCache"
\* What a wrapped function may return, and what a caller may store directly.
FResults == {None, "0", "1"}
SetValues == {"0", "1"}

\* An unspecified timeout (timeout=None) is TNone; the others are ticks.
TNone == -1
Timeouts == {TNone, 0, 2}
DefaultTimeouts == {0, Secs(DEFAULT_TIMEOUT)}
\* How far the clock may move in one step: a tick, or past a default timeout.
TierJumps == {1, Secs(DEFAULT_TIMEOUT)}

\* The enumerations of a finite set: the orders in which dict.items() or
\* os.listdir() may list the entries.
Orders(S) ==
  {o \in [1..Cardinality(S) -> S] : \A i, j \in 1..Cardinality(S) : o[i] = o[j] => i = j}

EmptyStore == [k \in {} |-> [exp |-> 0, val |-> None]]

\* ------------------------------------------------------ SimpleCache
SimpleGetExpiration(timeout, default, t) ==
  LET tm == IF timeout = TNone THEN default ELSE timeout
  IN  IF tm > 0 THEN t + tm ELSE tm

\* A prune that would remove the expired entries only.
SimplePrune_ExpiredOnly(c, order, threshold, t) ==
  IF Cardinality(DOMAIN c) > threshold
  THEN [k \in {kk \in DOMAIN c : ~(c[kk].exp # 0 /\ c[kk].exp <= t)} |-> c[k]]
  ELSE c

SimplePrune(c, order, threshold, t) ==
  IF Cardinality(DOMAIN c) > threshold
  THEN LET toremove ==
             {order[i] : i \in {j \in 1..Len(order) :
                 \/ (c[order[j]].exp # 0 /\ c[order[j]].exp <= t)
                 \/ (j - 1) % 3 = 0}}
       IN  [k \in (DOMAIN c) \ toremove |-> c[k]]
  ELSE c

\* A memory tier that would keep an entry through the instant it expires.
SimpleLive_Inclusive(e, t) == e.exp = 0 \/ e.exp >= t

SimpleLive(e, t) == e.exp = 0 \/ e.exp > t

SimpleGet(c, k, t) ==
  IF k \in DOMAIN c /\ SimpleLive(c[k], t) THEN c[k].val ELSE None

SimpleHas(c, k, t) == k \in DOMAIN c /\ SimpleLive(c[k], t)

\* A set that would store without pruning first.
SimpleSet_NoPrune(c, k, v, timeout, default, threshold, order, t) ==
  [kk \in (DOMAIN c) \cup {k} |->
     IF kk = k THEN [exp |-> SimpleGetExpiration(timeout, default, t), val |-> v]
     ELSE c[kk]]

SimpleSet(c, k, v, timeout, default, threshold, order, t) ==
  LET expires == SimpleGetExpiration(timeout, default, t)
      pruned == SimplePrune(c, order, threshold, t)
  IN  [kk \in (DOMAIN pruned) \cup {k} |->
         IF kk = k THEN [exp |-> expires, val |-> v] ELSE pruned[kk]]

\* -------------------------------------------------- FileSystemCache
FSExpiration(timeout, default, t) ==
  IF timeout = TNone THEN IntTrunc(t + default)
  ELSE IF timeout # 0 THEN IntTrunc(t + timeout)
  ELSE 0

FSPrune(d, order, threshold, t) ==
  IF Cardinality(DOMAIN d) > threshold
  THEN LET removed ==
             {order[i] : i \in {j \in 1..Len(order) :
                 \/ (d[order[j]].exp # 0 /\ d[order[j]].exp <= t)
                 \/ (j - 1) % 3 = 0}}
       IN  [k \in (DOMAIN d) \ removed |-> d[k]]
  ELSE d

FSLive(e, t) == e.exp = 0 \/ e.exp >= t

\* get: the value it returns, and the directory it leaves (an expired file
\* is removed).
FSGet(d, k, t) ==
  IF k \in DOMAIN d /\ FSLive(d[k], t) THEN d[k].val ELSE None

FSAfterGet(d, k, t) ==
  IF k \in DOMAIN d /\ ~FSLive(d[k], t)
  THEN [kk \in (DOMAIN d) \ {k} |-> d[kk]]
  ELSE d

FSHas(d, k, t) == k \in DOMAIN d /\ FSLive(d[k], t)

FSSet(d, k, v, timeout, default, threshold, order, t) ==
  LET expires == FSExpiration(timeout, default, t)
      pruned == FSPrune(d, order, threshold, t)
  IN  [kk \in (DOMAIN pruned) \cup {k} |->
         IF kk = k THEN [exp |-> expires, val |-> v] ELSE pruned[kk]]

\* ------------------------------------------------------------ state
VARIABLES
  now,          \* time.time(), in ticks
  nticks,       \* how many times the clock has moved (bounded by MaxTicks)
  mem,          \* SimpleCache._cache: key -> (expires, value)
  disk,         \* the cache directory: file of a key -> (expires, value)
  memDefault,   \* SimpleCache.default_timeout
  fsDefault,    \* FileSystemCache.default_timeout
  tier,         \* which tier the caller uses directly: the two are separate
                \* objects sharing no state, and a behaviour uses one
  hTier,        \* history: for each tier and key, the set call that stored
                \* the entry now there (its time, timeout and value)
  cacheTimeout, \* TLCache.cache(timeout=...): the decorator's timeout
  refresh,      \* TLCache._refresh_cache
  lockOwner,    \* TLCache.lock (an RLock): the thread that holds it
  lockCount,    \* TLCache.lock: how many times its owner has acquired it
  pc,           \* per thread: "idle", "wait" (its memoized call has begun and
                \* waits for the lock), "running" (inside f, holding the lock)
  key,          \* per thread: the cache key of its memoized call
  scope,        \* per thread: the with_refresh() scopes it has entered and
                \* not left
  last,         \* the call the step just taken has ended: how a memoized
                \* call ended ("hit", "computed", "degraded", "raised"), the
                \* thread, the key and the value returned; "set" with the
                \* key and value of a direct TLCache.set; "none" otherwise
  hOrch,        \* history of the orchestrator (see InitOrch)
  hOnce,        \* history of the one-call-per-thread scenario (see InitOnce)
  damage,       \* the cache directory: file of a key -> how its content is
                \* damaged (absent for a file that is whole)
  keyed,        \* two calls of a decorated function and the cache keys
                \* generate_cache_key gave them
  memThreshold  \* SimpleCache._threshold, where the scenario draws it

\* What only the scenarios on damaged files and on key generation change.
auxVars == <<damage, keyed, memThreshold>>
tierVars == <<mem, disk, memDefault, fsDefault, tier, hTier>>
orchVars == <<cacheTimeout, refresh, lockOwner, lockCount, pc, key, scope, last, hOrch, hOnce, auxVars>>
vars == <<now, nticks, tierVars, orchVars>>

\* The effective timeout of a set call: the one given, or the tier's default.
Effective(timeout, default) == IF timeout = TNone THEN default ELSE timeout

\* History of the entries of a tier after a call that left `store`: the
\* stamps of the entries still there, and the stamp of the one set.
Kept(st, store) == [k \in (DOMAIN st) \cap (DOMAIN store) |-> st[k]]

Stamped(st, store, k, v, timeout, default) ==
  [kk \in ((DOMAIN st) \cap (DOMAIN store)) \cup {k} |->
     IF kk = k THEN [at |-> now, ttl |-> Effective(timeout, default), val |-> v]
     ELSE st[kk]]

\* The clock moves.
Tick(d) ==
  /\ nticks < MaxTicks
  /\ now' = now + d
  /\ nticks' = nticks + 1

\* ------------------------------------- direct calls on the two tiers
\* SimpleCache.get and SimpleCache.has change nothing: they are the
\* operators SimpleGet and SimpleHas, evaluated in the state of the call.
SimpleCache_set(k, v, timeout) ==
  \E order \in Orders(DOMAIN mem) :
    /\ mem' = SimpleSet(mem, k, v, timeout, memDefault, MemThreshold, order, now)
    /\ hTier' = [hTier EXCEPT !.mem = Stamped(@, mem', k, v, timeout, memDefault)]
    /\ UNCHANGED <<disk, memDefault, fsDefault, tier>>

SimpleCache_delete(k) ==
  /\ k \in DOMAIN mem
  /\ mem' = [kk \in (DOMAIN mem) \ {k} |-> mem[kk]]
  /\ hTier' = [hTier EXCEPT !.mem = Kept(@, mem')]
  /\ UNCHANGED <<disk, memDefault, fsDefault, tier>>

SimpleCache_clear ==
  /\ mem' = EmptyStore
  /\ hTier' = [hTier EXCEPT !.mem = Kept(@, mem')]
  /\ UNCHANGED <<disk, memDefault, fsDefault, tier>>

FileSystemCache_set(k, v, timeout) ==
  \E order \in Orders(DOMAIN disk) :
    /\ disk' = FSSet(disk, k, v, timeout, fsDefault, FsThreshold, order, now)
    /\ hTier' = [hTier EXCEPT !.disk = Stamped(@, disk', k, v, timeout, fsDefault)]
    /\ UNCHANGED <<mem, memDefault, fsDefault, tier>>

\* get and has: both remove the file of an entry they find expired.
FileSystemCache_get(k) ==
  /\ disk' = FSAfterGet(disk, k, now)
  /\ hTier' = [hTier EXCEPT !.disk = Kept(@, disk')]
  /\ UNCHANGED <<mem, memDefault, fsDefault, tier>>

FileSystemCache_has(k) ==
  /\ disk' = FSAfterGet(disk, k, now)
  /\ hTier' = [hTier EXCEPT !.disk = Kept(@, disk')]
  /\ UNCHANGED <<mem, memDefault, fsDefault, tier>>

FileSystemCache_delete(k) ==
  /\ k \in DOMAIN disk
  /\ disk' = [kk \in (DOMAIN disk) \ {k} |-> disk[kk]]
  /\ hTier' = [hTier EXCEPT !.disk = Kept(@, disk')]
  /\ UNCHANGED <<mem, memDefault, fsDefault, tier>>

FileSystemCache_clear ==
  /\ disk' = EmptyStore
  /\ hTier' = [hTier EXCEPT !.disk = Kept(@, disk')]
  /\ UNCHANGED <<mem, memDefault, fsDefault, tier>>

\* ------------------------------------------------- the orchestrator
\* What the wrapped function may be decorated with.
CacheTimeouts == Timeouts
\* How far the clock may move in one step: a tick, or the disk tier's timeout.
OrchJumps == {1, Secs(_DEFAULT_FILE_TIMEOUT)}

\* The enumeration a prune pass follows; it matters only when the pass runs.
ListOrders(S, threshold) == IF Cardinality(S) > threshold THEN Orders(S) ELSE {<<>>}

\* A lock that would never make a thread wait.
CanAcquire_Free(t) == TRUE

\* threading.RLock: free, or held by the thread that asks again.
CanAcquire(t) == lockOwner = NoThread \/ lockOwner = t

\* `a or b` keeps a unless a is falsy: None, 0, False, an empty container.
Truthy(v) == v \notin {None, "0"}

\* A decorator that would publish None as it is.
Wrap_Plain(v) == v

\* rv if (rv is not None) else NotInCache()
Wrap(v) == IF v # None THEN v ELSE NotInCache

\* return None if isinstance(rv, NotInCache) else rv
Unwrap(rv) == IF rv = NotInCache THEN None ELSE rv

\* min(timeout, 5) of Python 2, where None is smaller than every number.
MinTimeout(t) ==
  IF t = TNone THEN TNone
  ELSE IF t < Secs(DEGRADED_CEILING) THEN t ELSE Secs(DEGRADED_CEILING)

\* A set that would write the memory tier only.
TLCacheSet_MemoryOnly(m, d, k, v, t, om, od) ==
  [mem |-> SimpleSet(m, k, v, t, memDefault, MemThreshold, om, now),
   disk |-> d]

\* TLCache.set: the memory tier with the timeout given, then the disk tier
\* with its own default timeout.
TLCacheSet(m, d, k, v, t, om, od) ==
  [mem |-> SimpleSet(m, k, v, t, memDefault, MemThreshold, om, now),
   disk |-> FSSet(d, k, v, TNone, fsDefault, _DEFAULT_FILE_THRESHOLD, od, now)]

\* A lock that would not count its re-entries: any release frees it.
Release_Whole(t) ==
  /\ lockCount' = 0
  /\ lockOwner' = NoThread

\* Leaving `with self.lock`: the RLock is freed by its owner's last release.
Release(t) ==
  /\ lockCount' = lockCount - 1
  /\ lockOwner' = IF lockCount = 1 THEN NoThread ELSE lockOwner

NoResult == [how |-> "none", by |-> NoThread, key |-> 0, val |-> None]

\* A thread calls the memoized function: the key is derived, and the call
\* comes to `with self.lock`, where it waits while another thread holds it.
Call(t, k) ==
  /\ pc[t] = "idle"
  /\ pc' = [pc EXCEPT ![t] = "wait"]
  /\ key' = [key EXCEPT ![t] = k]
  /\ last' = NoResult
  /\ UNCHANGED <<mem, disk, refresh, lockOwner, lockCount, scope>>

\* The call of t for key k takes the lock and reads the memory tier: a live
\* value, outside a forced refresh, is returned (and the lock released);
\* otherwise f is invoked.
Lookup(t, k) ==
  /\ CanAcquire(t)
  /\ LET rv == SimpleGet(mem, k, now) IN
     IF rv = None \/ refresh
     THEN /\ pc' = [pc EXCEPT ![t] = "running"]
          /\ key' = [key EXCEPT ![t] = k]
          /\ lockOwner' = t
          /\ lockCount' = lockCount + 1
          /\ last' = NoResult
     ELSE /\ pc' = [pc EXCEPT ![t] = "idle"]
          /\ key' = [key EXCEPT ![t] = 1]
          /\ last' = [how |-> "hit", by |-> t, key |-> k, val |-> Unwrap(rv)]
          /\ UNCHANGED <<lockOwner, lockCount>>
  /\ UNCHANGED <<mem, disk, refresh, scope>>

\* A waiting call gets the lock.
Enter(t) ==
  /\ pc[t] = "wait"
  /\ Lookup(t, key[t])

\* A call that finds the lock free (or its own) goes straight on.
CallEnter(t, k) ==
  /\ pc[t] = "idle"
  /\ Lookup(t, k)

\* f returns v: the result (NotInCache for None) is published, and returned.
FReturn(t, v) ==
  /\ pc[t] = "running"
  /\ LET rv == Wrap(v) IN
     \E om \in ListOrders(DOMAIN mem, MemThreshold),
        od \in ListOrders(DOMAIN disk, _DEFAULT_FILE_THRESHOLD) :
       LET s == TLCacheSet(mem, disk, key[t], rv, cacheTimeout, om, od) IN
       /\ mem' = s.mem
       /\ disk' = s.disk
       /\ last' = [how |-> "computed", by |-> t, key |-> key[t], val |-> Unwrap(rv)]
  /\ pc' = [pc EXCEPT ![t] = "idle"]
  /\ key' = [key EXCEPT ![t] = 1]
  /\ Release(t)
  /\ UNCHANGED <<refresh, scope>>

\* f raises: a value of the memory tier, or else of the disk tier, is
\* published again with the shortened timeout and returned; with none, the
\* error goes to the caller.
FRaise(t) ==
  /\ pc[t] = "running"
  /\ LET k == key[t]
         m == SimpleGet(mem, k, now)
         rv == IF Truthy(m) THEN m ELSE FSGet(disk, k, now)
         d1 == IF Truthy(m) THEN disk ELSE FSAfterGet(disk, k, now)
     IN  IF rv = None
         THEN /\ mem' = mem
              /\ disk' = d1
              /\ last' = [how |-> "raised", by |-> t, key |-> k, val |-> None]
         ELSE \E om \in ListOrders(DOMAIN mem, MemThreshold),
                 od \in ListOrders(DOMAIN d1, _DEFAULT_FILE_THRESHOLD) :
                LET s == TLCacheSet(mem, d1, k, rv, MinTimeout(cacheTimeout), om, od) IN
                /\ mem' = s.mem
                /\ disk' = s.disk
                /\ last' = [how |-> "degraded", by |-> t, key |-> k, val |-> Unwrap(rv)]
  /\ pc' = [pc EXCEPT ![t] = "idle"]
  /\ key' = [key EXCEPT ![t] = 1]
  /\ Release(t)
  /\ UNCHANGED <<refresh, scope>>

\* with self.cache.with_refresh(): the lock is taken, the flag set.
EnterRefresh(t) ==
  /\ pc[t] = "idle"
  /\ scope[t] < MaxNest
  /\ CanAcquire(t)
  /\ lockOwner' = t
  /\ lockCount' = lockCount + 1
  /\ refresh' = TRUE
  /\ scope' = [scope EXCEPT ![t] = @ + 1]
  /\ last' = NoResult
  /\ UNCHANGED <<mem, disk, pc, key>>

\* The with block is left, by its end or by an error: finally clears the
\* flag, and the lock is released.
ExitRefresh(t) ==
  /\ pc[t] = "idle"
  /\ scope[t] > 0
  /\ refresh' = FALSE
  /\ scope' = [scope EXCEPT ![t] = @ - 1]
  /\ Release(t)
  /\ last' = NoResult
  /\ UNCHANGED <<mem, disk, pc, key>>

\* TLCache.set, called directly (Next has it called with the timeout the
\* decorator was given).
TLCache_set(k, v, t) ==
  /\ \E om \in ListOrders(DOMAIN mem, MemThreshold),
        od \in ListOrders(DOMAIN disk, _DEFAULT_FILE_THRESHOLD) :
       LET s == TLCacheSet(mem, disk, k, v, t, om, od) IN
       /\ mem' = s.mem
       /\ disk' = s.disk
  /\ last' = [how |-> "set", by |-> NoThread, key |-> k, val |-> v]
  /\ UNCHANGED <<refresh, lockOwner, lockCount, pc, key, scope>>

\* TLCache.clearall
TLCache_clearall ==
  /\ mem' = EmptyStore
  /\ disk' = EmptyStore
  /\ last' = NoResult
  /\ UNCHANGED <<refresh, lockOwner, lockCount, pc, key, scope>>

\* The clock moves while the orchestrator is in use.
Pass(d) ==
  /\ Tick(d)
  /\ last' = NoResult
  /\ UNCHANGED <<mem, disk, refresh, lockOwner, lockCount, pc, key, scope>>

\* No file is damaged, no key has been generated.
NoDamage == [k \in {} |-> "whole"]
NoKeyed == [done |-> FALSE]

InitAux ==
  /\ damage = NoDamage
  /\ keyed = NoKeyed
  /\ memThreshold = MemThreshold

\* The orchestrator as constructed: no scope, the lock free, no call made.
InitThreads ==
  /\ refresh = FALSE
  /\ lockOwner = NoThread
  /\ lockCount = 0
  /\ pc = [t \in Threads |-> "idle"]
  /\ key = [t \in Threads |-> 1]
  /\ scope = [t \in Threads |-> 0]
  /\ last = NoResult
  /\ hOrch = [none |-> [k \in Keys |-> -1], okAt |-> -1]
  /\ hOnce = [fcalls |-> 0, called |-> {}, got |-> {}, arrivedLate |-> FALSE, readLate |-> FALSE]

\* ---------------------------------- the two tiers, each used directly
InitTier ==
  /\ now = Secs(StartSec)
  /\ nticks = 0
  /\ mem = EmptyStore
  /\ disk = EmptyStore
  /\ memDefault \in DefaultTimeouts
  /\ fsDefault \in DefaultTimeouts
  /\ tier \in {"memory", "disk"}
  /\ hTier = [mem |-> EmptyStore, disk |-> EmptyStore]
  /\ InitThreads
  /\ InitAux
  /\ cacheTimeout = TNone

NextTier ==
  \/ \E d \in TierJumps : Tick(d) /\ UNCHANGED <<tierVars, orchVars>>
  \/ tier = "memory" /\ \E k \in Keys, v \in SetValues, t \in Timeouts : SimpleCache_set(k, v, t) /\ UNCHANGED <<now, nticks, orchVars>>
  \/ tier = "memory" /\ \E k \in Keys : SimpleCache_delete(k) /\ UNCHANGED <<now, nticks, orchVars>>
  \/ tier = "memory" /\ SimpleCache_clear /\ UNCHANGED <<now, nticks, orchVars>>
  \/ tier = "disk" /\ \E k \in Keys, v \in SetValues, t \in Timeouts : FileSystemCache_set(k, v, t) /\ UNCHANGED <<now, nticks, orchVars>>
  \/ tier = "disk" /\ \E k \in Keys : FileSystemCache_get(k) /\ UNCHANGED <<now, nticks, orchVars>>
  \/ tier = "disk" /\ \E k \in Keys : FileSystemCache_has(k) /\ UNCHANGED <<now, nticks, orchVars>>
  \/ tier = "disk" /\ \E k \in Keys : FileSystemCache_delete(k) /\ UNCHANGED <<now, nticks, orchVars>>
  \/ tier = "disk" /\ FileSystemCache_clear /\ UNCHANGED <<now, nticks, orchVars>>

SpecTier == InitTier /\ [][NextTier]_vars

\* ------------------------------------------- the orchestrator in use
\* hOrch.none[k]: the expiration given to the entry that stores f's latest
\* None for k, -1 when there is none or once that entry has been overwritten
\* or cleared by a caller.  hOrch.okAt: in the scenario of a function that
\* succeeds once, when it did (-1 before).
restOrch == <<memDefault, fsDefault, tier, hTier, cacheTimeout, auxVars>>
restVars == <<now, nticks, restOrch>>

Init ==
  /\ now = Secs(StartSec)
  /\ nticks = 0
  /\ mem = EmptyStore
  /\ disk = EmptyStore
  /\ memDefault = Secs(DEFAULT_TIMEOUT)
  /\ fsDefault = Secs(_DEFAULT_FILE_TIMEOUT)
  /\ tier = "both"
  /\ hTier = [mem |-> EmptyStore, disk |-> EmptyStore]
  /\ cacheTimeout \in CacheTimeouts
  /\ InitThreads
  /\ InitAux

Next ==
  \/ \E d \in OrchJumps : Pass(d) /\ UNCHANGED <<restOrch, hOrch, hOnce>>
  \/ \E t \in Threads, k \in Keys : CallEnter(t, k) /\ UNCHANGED <<restVars, hOrch, hOnce>>
  \/ \E t \in Threads, v \in FResults :
       /\ FReturn(t, v)
       /\ hOrch' = [hOrch EXCEPT !.none[key[t]] =
                      IF v = None THEN mem'[key[t]].exp ELSE -1]
       /\ UNCHANGED <<restVars, hOnce>>
  \/ \E t \in Threads :
       /\ FRaise(t)
       /\ hOrch' = [hOrch EXCEPT !.none[key[t]] =
                      IF last'.how = "degraded" THEN -1 ELSE @]
       /\ UNCHANGED <<restVars, hOnce>>
  \/ \E t \in Threads : EnterRefresh(t) /\ UNCHANGED <<restVars, hOrch, hOnce>>
  \/ \E t \in Threads : ExitRefresh(t) /\ UNCHANGED <<restVars, hOrch, hOnce>>
  \/ \E k \in Keys, v \in SetValues :
       /\ TLCache_set(k, v, cacheTimeout)
       /\ hOrch' = [hOrch EXCEPT !.none[k] = -1]
       /\ UNCHANGED <<restVars, hOnce>>
  \/ /\ TLCache_clearall
     /\ hOrch' = [hOrch EXCEPT !.none = [k \in Keys |-> -1]]
     /\ UNCHANGED <<restVars, hOnce>>

Spec == Init /\ [][Next]_vars

\* --------------- the scenario of test_cache_concurrency: from an empty
\* cache, every thread calls the memoized function once, with one key, and f
\* succeeds.
\* hOnce.fcalls: how many times f was invoked.  hOnce.called: the threads
\* that have called.  hOnce.arrivedLate: some call began when the entry
\* published before it had expired.  hOnce.readLate: some call read the
\* memory tier when the entry published before it had expired.  hOnce.got:
\* the values the callers have got.
Expired(k) == k \in DOMAIN mem /\ ~SimpleLive(mem[k], now)

InitOnce == Init

NextOnce ==
  \/ \E d \in OrchJumps : Pass(d) /\ UNCHANGED <<restOrch, hOrch, hOnce>>
  \/ \E t \in Threads :
       /\ t \notin hOnce.called
       /\ Call(t, 1)
       /\ hOnce' = [hOnce EXCEPT !.called = @ \cup {t},
                                 !.arrivedLate = @ \/ Expired(1)]
       /\ UNCHANGED <<restVars, hOrch>>
  \/ \E t \in Threads :
       /\ Enter(t)
       /\ hOnce' = [hOnce EXCEPT !.fcalls = IF pc'[t] = "running" THEN @ + 1 ELSE @,
                                 !.got = IF pc'[t] = "idle" THEN @ \cup {last'.val} ELSE @,
                                 !.readLate = @ \/ Expired(1)]
       /\ UNCHANGED <<restVars, hOrch>>
  \/ \E t \in Threads, v \in FResults :
       /\ FReturn(t, v)
       /\ hOnce' = [hOnce EXCEPT !.got = @ \cup {last'.val}]
       /\ UNCHANGED <<restVars, hOrch>>

SpecOnce == InitOnce /\ [][NextOnce]_vars

\* --------------- the scenario of test_cache_when_raises: a function that
\* succeeds once and raises on every later call, called again and again.
InitDegraded == Init

NextDegraded ==
  \/ \E d \in OrchJumps : Pass(d) /\ UNCHANGED <<restOrch, hOrch, hOnce>>
  \/ \E t \in Threads : CallEnter(t, 1) /\ UNCHANGED <<restVars, hOrch, hOnce>>
  \/ \E t \in Threads, v \in FResults :
       /\ hOrch.okAt = -1
       /\ FReturn(t, v)
       /\ hOrch' = [hOrch EXCEPT !.okAt = now]
       /\ UNCHANGED <<restVars, hOnce>>
  \/ \E t \in Threads :
       /\ hOrch.okAt # -1
       /\ FRaise(t)
       /\ UNCHANGED <<restVars, hOrch, hOnce>>

SpecDegraded == InitDegraded /\ [][NextDegraded]_vars

\* ------------------------------------------------ claims on the tiers

(* C8 (as claimed; the disk tier breaks it).  In each tier, an entry stored
   by set(key, value, T) with T > 0 at time t0, and not touched since by a
   delete, clear, overwrite or prune, is returned by get and reported by has
   at every time strictly before t0 + T, and is absent at every time at or
   after t0 + T. *)
C8_ExpiryBoundary ==
  /\ \A k \in DOMAIN hTier.mem :
       LET s == hTier.mem[k] IN
       s.ttl > 0 =>
         IF now < s.at + s.ttl
         THEN SimpleGet(mem, k, now) = s.val /\ SimpleHas(mem, k, now)
         ELSE SimpleGet(mem, k, now) = None /\ ~SimpleHas(mem, k, now)
  /\ \A k \in DOMAIN hTier.disk :
       LET s == hTier.disk[k] IN
       s.ttl > 0 =>
         IF now < s.at + s.ttl
         THEN FSGet(disk, k, now) = s.val /\ FSHas(disk, k, now)
         ELSE FSGet(disk, k, now) = None /\ ~FSHas(disk, k, now)

(* C10 (as claimed; the disk tier breaks it).  In each tier, an entry stored
   by set with an effective timeout of 0 (0 passed, or no timeout passed and
   a default_timeout of 0) has expiration 0 and is returned by get at every
   later time, until a delete, clear, overwrite or prune removes it. *)
C10_NeverExpire ==
  /\ \A k \in DOMAIN hTier.mem :
       LET s == hTier.mem[k] IN
       s.ttl = 0 => mem[k].exp = 0 /\ SimpleGet(mem, k, now) = s.val
  /\ \A k \in DOMAIN hTier.disk :
       LET s == hTier.disk[k] IN
       s.ttl = 0 => disk[k].exp = 0 /\ FSGet(disk, k, now) = s.val

\* ------------------------------------------- claims on the orchestrator

(* C1.  With f always succeeding and no forced-refresh scope active: a call
   never invokes f for a key whose memory-tier entry is still live (now before
   its expiration, or expiration 0); a call that returns a cached value
   returns the value of a live entry of its key, and none of an entry whose
   TTL has elapsed, for which f is invoked instead; and when f returns, the
   call that invoked it publishes the result under its key, live, and returns
   it. *)
C1_MemoizedCall ==
  [][\A k \in Keys :
       LET live == k \in DOMAIN mem /\ (mem[k].exp = 0 \/ now < mem[k].exp)
           noScope == \A t \in Threads : scope[t] = 0
           invoked == \E t \in Threads :
                        pc[t] = "idle" /\ pc'[t] = "running" /\ key'[t] = k
           hit == last'.how = "hit" /\ last'.key = k
           computed == last'.how = "computed" /\ last'.key = k
       IN  /\ (live /\ noScope) => ~invoked
           /\ hit => live /\ last'.val = Unwrap(mem[k].val) /\ mem' = mem
           /\ computed =>
                /\ pc[last'.by] = "running" /\ pc'[last'.by] = "idle"
                /\ k \in DOMAIN mem'
                /\ mem'[k].exp = 0 \/ now < mem'[k].exp
                /\ Unwrap(mem'[k].val) = last'.val
     ]_vars

\* A call made after time has passed, within the TTL, has returned the value
\* f gave before.
C1_Witness ==
  /\ last.how = "hit" /\ last.val = "1"
  /\ nticks > 0 /\ cacheTimeout = 2
  /\ \A t \in Threads : scope[t] = 0

(* C2 (as claimed).  Every thread calls once, from an empty cache, f succeeds
   and yields while it runs, and every call is made (arrives) before the
   published entry's TTL expires: f is executed once in all, and the callers
   all get the same value. *)
C2_OnceArriving ==
  ~hOnce.arrivedLate =>
    /\ hOnce.fcalls <= 1
    /\ Cardinality(hOnce.got) <= 1
    /\ (hOnce.called = Threads /\ \A t \in Threads : pc[t] = "idle") =>
         hOnce.fcalls = 1 /\ Cardinality(hOnce.got) = 1

(* C2 (amended).  The same, for calls that all read the memory tier - each
   once it has the lock - before the published entry's TTL expires: f is
   executed once in all, and the callers all get the same value. *)
C2_OnceReading ==
  ~hOnce.readLate =>
    /\ hOnce.fcalls <= 1
    /\ Cardinality(hOnce.got) <= 1
    /\ (hOnce.called = Threads /\ \A t \in Threads : pc[t] = "idle") =>
         hOnce.fcalls = 1 /\ Cardinality(hOnce.got) = 1

\* Every thread has called and returned, none read an expired entry, and f
\* ran once.
C2_Witness ==
  /\ hOnce.called = Threads
  /\ \A t \in Threads : pc[t] = "idle"
  /\ ~hOnce.readLate
  /\ hOnce.fcalls = 1
  /\ Cardinality(hOnce.got) = 1

(* C3 (as claimed; the `or` of the fallback breaks it).  When f raises: if the
   memory tier or the disk tier holds a live value for the key, whatever the
   value, the call returns a value the tiers held and no error reaches the
   caller; if neither does, the error of f reaches the caller. *)
C3_FallbackOrError ==
  [][\A t \in Threads :
       (pc[t] = "running" /\ last'.by = t /\ last'.how \in {"degraded", "raised"}) =>
         LET k == key[t]
             held == {Unwrap(mem[kk].val) : kk \in {x \in {k} : SimpleHas(mem, x, now)}}
                       \cup {Unwrap(disk[kk].val) : kk \in {x \in {k} : FSHas(disk, x, now)}}
         IN  IF held # {}
             THEN last'.how = "degraded" /\ last'.val \in held
             ELSE last'.how = "raised"
     ]_vars

(* C4 (as claimed; the republication on the disk tier breaks it).  For a
   function that succeeds once and raises on every later call, no call returns
   the stale value later than the longest lifetime one publication gives (the
   disk tier's timeout) plus the degraded ceiling after the one success,
   whatever the schedule of the later calls. *)
C4_DegradedWindowBounded ==
  last.how = "degraded" =>
    now <= hOrch.okAt + Secs(_DEFAULT_FILE_TIMEOUT + DEGRADED_CEILING)

(* C5 (as claimed; a nested scope breaks it).  A memoized call made by a
   thread inside a with_refresh scope never returns a cached value: it invokes
   f, and when f returns the key's entry holds the new result; with no scope
   active, f is not invoked for a key whose entry is live. *)
C5_RefreshScope ==
  [][/\ \A t \in Threads :
          (scope[t] > 0 /\ last'.by = t) =>
            /\ last'.how # "hit"
            /\ last'.how = "computed" => mem'[last'.key].val = Wrap(last'.val)
     /\ \A k \in Keys :
          ( /\ \A t \in Threads : scope[t] = 0
            /\ SimpleHas(mem, k, now) )
          => ~ \E t \in Threads : pc[t] = "idle" /\ pc'[t] = "running" /\ key'[t] = k
     ]_vars

(* C6 (as claimed).  When f returns None, the outcome is stored as an entry
   that is not a missing key, and until that entry's TTL elapses (and unless a
   caller overwrites or clears it) a call with the same key outside a
   forced-refresh scope returns None without invoking f. *)
C6_NoneCached ==
  [][\A k \in Keys :
       /\ (last'.how = "computed" /\ last'.key = k /\ last'.val = None) =>
            k \in DOMAIN mem' /\ mem'[k].val = NotInCache
       /\ ( /\ hOrch.none[k] # -1
            /\ hOrch.none[k] = 0 \/ now < hOrch.none[k]
            /\ \A t \in Threads : scope[t] = 0 )
          => /\ ~ \E t \in Threads : pc[t] = "idle" /\ pc'[t] = "running" /\ key'[t] = k
             /\ (last'.how = "hit" /\ last'.key = k) => last'.val = None
     ]_vars

(* C6 (amended).  The same, for an entry that the memory tier's size-bound
   prune has not evicted: when f returns None the outcome is stored as an
   entry that is not a missing key, and until its TTL elapses, while it is
   still stored, a call with the same key outside a forced-refresh scope
   returns None without invoking f. *)
C6_NoneCachedUnlessPruned ==
  [][\A k \in Keys :
       /\ (last'.how = "computed" /\ last'.key = k /\ last'.val = None) =>
            k \in DOMAIN mem' /\ mem'[k].val = NotInCache
       /\ ( /\ hOrch.none[k] # -1
            /\ hOrch.none[k] = 0 \/ now < hOrch.none[k]
            /\ k \in DOMAIN mem
            /\ \A t \in Threads : scope[t] = 0 )
          => /\ mem[k].val = NotInCache
             /\ ~ \E t \in Threads : pc[t] = "idle" /\ pc'[t] = "running" /\ key'[t] = k
             /\ (last'.how = "hit" /\ last'.key = k) => last'.val = None
     ]_vars

\* A call has just returned the None that f gave an earlier call.
C6_Witness ==
  /\ last.how = "hit" /\ last.val = None
  /\ hOrch.none[last.key] # -1
  /\ last.key \in DOMAIN mem /\ mem[last.key].val = NotInCache
  /\ \A t \in Threads : scope[t] = 0

(* C7.  While a thread is inside a with_refresh scope, no other thread is
   running f for a memoized call, none has just ended one (by a cached
   value, a computation, a fallback or an error), and none is inside a scope
   of its own. *)
C7_ScopeExcludes ==
  \A t \in Threads :
    scope[t] > 0 =>
      /\ lockOwner = t
      /\ \A u \in Threads \ {t} :
           pc[u] # "running" /\ scope[u] = 0 /\ last.by # u

\* Inside its scope, a thread has made a memoized call that computed and
\* published, and is still inside.
C7_Witness ==
  \E t \in Threads :
    scope[t] > 0 /\ last.how = "computed" /\ last.by = t /\ lockOwner = t

(* C9.  Right after a TLCache.set - direct, or the publication of a memoized
   call - both tiers report the key present and both return the value from
   get; and whenever both tiers report a key present, they hold the same
   value for it. *)
C9_WriteThrough ==
  /\ last.how \in {"set", "computed", "degraded"} =>
       LET v == Wrap(last.val) IN
       /\ last.key \in DOMAIN mem /\ (mem[last.key].exp = 0 \/ now < mem[last.key].exp)
       /\ mem[last.key].val = v
       /\ SimpleGet(mem, last.key, now) = v
       /\ last.key \in DOMAIN disk /\ (disk[last.key].exp = 0 \/ now <= disk[last.key].exp)
       /\ disk[last.key].val = v
       /\ FSGet(disk, last.key, now) = v
  /\ \A k \in Keys :
       (SimpleHas(mem, k, now) /\ FSHas(disk, k, now)) => mem[k].val = disk[k].val

\* A direct set has just returned, and both tiers have the key.
C9_Witness ==
  /\ last.how = "set"
  /\ SimpleHas(mem, last.key, now) /\ FSHas(disk, last.key, now)
  /\ mem[last.key].val = last.val /\ disk[last.key].val = last.val

\* ------------------------------------------------ generate_cache_key
\* Text is a sequence of characters (a name counts as one).  A value passed
\* to the function has a type and the text unicode() gives for it: the int 1
\* and the string '1' are two values with one text.
Unicode(x) == x.text

Int1 == [type |-> "int", text |-> <<"1">>]
ArgValues ==
  {Int1,
   [type |-> "str", text |-> <<"1">>],
   [type |-> "str", text |-> <<"1", ":", "1">>],
   [type |-> "str", text |-> <<"a", ",", "1">>]}
Receivers == {[type |-> "object", text |-> <<"r1">>], [type |-> "object", text |-> <<"r2">>]}

\* The decorated functions: f(x, ...) and the method m(self, ...).
Funcs == {"f", "m"}
\* inspect.getargspec(f)[0][0]
FirstFormal(fn) == IF fn = "m" THEN "self" ELSE "x"
\* namespace=None, or a namespace
Namespaces == {None, "n"}

ArgTuples == UNION {[1..n -> ArgValues] : n \in 0..MaxArgs}
\* Keyword arguments in the order of the call; the names of the keywords in
\* the order sorted() gives them.
KwNames == <<"a", "b">>
KwA == [name |-> [type |-> "str", text |-> <<"a">>], value |-> Int1]
KwB == [name |-> [type |-> "str", text |-> <<"b">>], value |-> Int1]
KwLists == {<< >>, <<KwA>>, <<KwA, KwB>>, <<KwB, KwA>>}

\* The calls: a method is called with its receiver first.
Calls ==
  UNION {{[ns |-> n, fn |-> fn, args |-> p, kw |-> k] :
            n \in Namespaces,
            p \in IF FirstFormal(fn) \in {"self", "cls"}
                  THEN {<<r>> \o a : r \in Receivers, a \in ArgTuples}
                  ELSE ArgTuples,
            k \in KwLists} : fn \in Funcs}

\* sorted(kwargs.items(), key=lambda x: x[0]): names are distinct in a call.
RECURSIVE SortedFrom(_, _)
SortedFrom(kw, i) ==
  IF i > Len(KwNames) THEN << >>
  ELSE SelectSeq(kw, LAMBDA x : x.name.text = <<KwNames[i]>>) \o SortedFrom(kw, i + 1)

\* sep.join(parts)
RECURSIVE Join(_, _)
Join(parts, sep) ==
  IF parts = << >> THEN << >>
  ELSE IF Len(parts) = 1 THEN parts[1]
  ELSE parts[1] \o sep \o Join(Tail(parts), sep)

\* .encode('utf-8'): byte for character on the ASCII text of the model.
EncodeUtf8(text) == [i \in 1..Len(text) |-> text[i]]

generate_cache_key(c) ==
  LET has_self == FirstFormal(c.fn) \in {"self", "cls"}
      args == IF has_self THEN Tail(c.args) ELSE c.args
      key_name == <<c.fn>>
      namespace == IF c.ns = None THEN key_name ELSE <<c.ns>> \o <<"|">> \o key_name
      items == SortedFrom(c.kw, 1)
      kwargs == [i \in 1..Len(items) |->
                   Join(<<Unicode(items[i].name), Unicode(items[i].value)>>, <<",">>)]
  IN  EncodeUtf8(Join(<<namespace>> \o [i \in 1..Len(args) |-> Unicode(args[i])] \o kwargs,
                      <<":">>))

\* Two calls are made, and each gets its key.
InitKey ==
  /\ InitTier
  /\ tier = "memory"
  /\ memDefault = Secs(DEFAULT_TIMEOUT)
  /\ fsDefault = Secs(DEFAULT_TIMEOUT)

Generate(a, b) ==
  /\ keyed' = [done |-> TRUE, a |-> a, b |-> b,
               ka |-> generate_cache_key(a), kb |-> generate_cache_key(b)]
  /\ UNCHANGED <<damage, memThreshold>>

NextKey ==
  /\ ~keyed.done
  /\ \E a \in Calls, b \in Calls :
       Generate(a, b) /\ UNCHANGED <<now, nticks, tierVars, cacheTimeout, refresh,
                                     lockOwner, lockCount, pc, key, scope, last, hOrch, hOnce>>

SpecKey == InitKey /\ [][NextKey]_vars

\* What a call is, logically: the receiver dropped, the keywords a set.
LogicalCall(c) ==
  [ns |-> c.ns, fn |-> c.fn,
   args |-> IF FirstFormal(c.fn) \in {"self", "cls"} THEN Tail(c.args) ELSE c.args,
   kw |-> {c.kw[i] : i \in 1..Len(c.kw)}]

(* C11 (as claimed; the rendering of the arguments breaks its last part).
   Two calls that differ only in the order of their keyword arguments, or only
   in the receiver, get the same key; two calls that differ only in the value
   of a positional argument get different keys. *)
C11_KeyDeterminism ==
  keyed.done =>
    LET la == LogicalCall(keyed.a)
        lb == LogicalCall(keyed.b)
    IN  /\ la = lb => keyed.ka = keyed.kb
        /\ ( /\ la.ns = lb.ns /\ la.fn = lb.fn /\ la.kw = lb.kw
             /\ Len(la.args) = Len(lb.args)
             /\ la.args # lb.args )
           => keyed.ka # keyed.kb

(* C12 (as claimed; broken).  Two calls that differ logically - in namespace,
   function name, number or value of positional arguments, or keyword
   name/value pairs - get different keys. *)
C12_KeyInjective ==
  keyed.done =>
    (LogicalCall(keyed.a) # LogicalCall(keyed.b) => keyed.ka # keyed.kb)

\* --------------------------- FileSystemCache with faults and bad files
\* A file is whole, or damaged: "cut" (it ends inside the pickled expiration:
\* pickle.load raises EOFError), "cutValue" (the expiration is whole, the
\* value is not: EOFError on the second load) or "garbled" (bytes that are
\* no pickle: pickle.load raises UnpicklingError, a PickleError).  For a
\* damaged file, disk[k] is what the file was meant to hold.
Damages == {"cut", "cutValue", "garbled"}
\* Where a call may meet an IOError / OSError.
GetFaults == {"none", "open", "remove"}
SetFaults == {"none", "mkstemp", "write", "writeValue", "rename", "chmod"}
RemoveFaults == {"none", "remove"}
\* What the calls of this scenario store, and for how long.
FaultValues == {"1"}
FaultTimeouts == {0, 2}

Raised == "raised"
Returned == "returned"

Without(f, ks) == [k \in (DOMAIN f) \ ks |-> f[k]]

\* pickle.load(f) of the expiration succeeds.
TimeReadable(k) == k \notin DOMAIN damage \/ damage[k] = "cutValue"

\* FileSystemCache.get and .has: the file is opened, the expiration loaded,
\* then the value (get only), or an expired file is removed.  except
\* (IOError, OSError, pickle.PickleError) turns those into None / False; an
\* EOFError is none of them.
FileRead(op, k, fault) ==
  LET absent == IF op = "fs.get" THEN None ELSE "False"
      out(ret, v) == [how |-> op, by |-> NoThread, key |-> k, val |-> v, ret |-> ret]
  IN  IF k \notin DOMAIN disk \/ fault = "open"
      THEN last' = out(Returned, absent) /\ UNCHANGED <<disk, damage>>
      ELSE IF ~TimeReadable(k)
      THEN /\ last' = IF damage[k] = "cut" THEN out(Raised, None) ELSE out(Returned, absent)
           /\ UNCHANGED <<disk, damage>>
      ELSE IF FSLive(disk[k], now)
      THEN /\ last' = IF op = "fs.has" THEN out(Returned, "True")
                      ELSE IF k \in DOMAIN damage THEN out(Raised, None)
                      ELSE out(Returned, disk[k].val)
           /\ UNCHANGED <<disk, damage>>
      ELSE /\ last' = out(Returned, absent)
           /\ IF fault = "remove"
              THEN UNCHANGED <<disk, damage>>
              ELSE disk' = Without(disk, {k}) /\ damage' = Without(damage, {k})

Faulty_get(k, fault) == FileRead("fs.get", k, fault)
Faulty_has(k, fault) == FileRead("fs.has", k, fault)

\* FileSystemCache._prune over the listing `order`: the pass stops at the
\* first file whose expiration does not load (the error leaves _prune, which
\* catches IOError and OSError only); what it removed before stays removed.
FaultyPrune(order, threshold) ==
  IF Cardinality(DOMAIN disk) > threshold
  THEN LET bad == {j \in 1..Len(order) : ~TimeReadable(order[j])}
           stop == IF bad = {} THEN Len(order) + 1
                   ELSE CHOOSE j \in bad : \A i \in bad : j <= i
           removed == {order[i] : i \in {j \in 1..(stop - 1) :
                         \/ (disk[order[j]].exp # 0 /\ disk[order[j]].exp <= now)
                         \/ (j - 1) % 3 = 0}}
       IN  [removed |-> removed, raised |-> bad # {}]
  ELSE [removed |-> {}, raised |-> FALSE]

\* FileSystemCache.set: prune, then the temporary file is made, written,
\* renamed over the target and chmod-ed.  An error while writing is logged
\* and the rename goes on; IOError / OSError elsewhere give False.
Faulty_set(op, k, v, timeout, fault) ==
  \E order \in ListOrders(DOMAIN disk, FsThreshold) :
    LET p == FaultyPrune(order, FsThreshold)
        d1 == Without(disk, p.removed)
        m1 == Without(damage, p.removed)
        entry == [exp |-> FSExpiration(timeout, fsDefault, now), val |-> v]
        written == [kk \in (DOMAIN d1) \cup {k} |-> IF kk = k THEN entry ELSE d1[kk]]
        out(ret, r) == [how |-> op, by |-> NoThread, key |-> k, val |-> r, ret |-> ret]
    IN  IF p.raised
        THEN disk' = d1 /\ damage' = m1 /\ last' = out(Raised, None)
        ELSE IF fault \in {"mkstemp", "rename"}
        THEN disk' = d1 /\ damage' = m1 /\ last' = out(Returned, "False")
        ELSE /\ disk' = written
             /\ damage' = IF fault = "write" THEN [kk \in (DOMAIN m1) \cup {k} |->
                                                     IF kk = k THEN "cut" ELSE m1[kk]]
                          ELSE IF fault = "writeValue"
                          THEN [kk \in (DOMAIN m1) \cup {k} |->
                                  IF kk = k THEN "cutValue" ELSE m1[kk]]
                          ELSE Without(m1, {k})
             /\ last' = out(Returned, IF fault = "chmod" THEN "False" ELSE "True")

\* FileSystemCache.add: set unless the file exists.
Faulty_add(k, v, timeout, fault) ==
  IF k \in DOMAIN disk
  THEN /\ last' = [how |-> "fs.add", by |-> NoThread, key |-> k, val |-> "False", ret |-> Returned]
       /\ UNCHANGED <<disk, damage>>
  ELSE Faulty_set("fs.add", k, v, timeout, fault)

Faulty_delete(k, fault) ==
  IF k \notin DOMAIN disk \/ fault = "remove"
  THEN /\ last' = [how |-> "fs.delete", by |-> NoThread, key |-> k, val |-> "False", ret |-> Returned]
       /\ UNCHANGED <<disk, damage>>
  ELSE /\ last' = [how |-> "fs.delete", by |-> NoThread, key |-> k, val |-> "True", ret |-> Returned]
       /\ disk' = Without(disk, {k})
       /\ damage' = Without(damage, {k})

\* FileSystemCache.clear: the files are removed in listing order; the first
\* removal that fails ends the call with False.
Faulty_clear(fault) ==
  \E order \in Orders(DOMAIN disk) :
    \E n \in IF fault = "none" \/ order = << >> THEN {Len(order)} ELSE 0..(Len(order) - 1) :
      /\ disk' = Without(disk, {order[i] : i \in 1..n})
      /\ damage' = Without(damage, {order[i] : i \in 1..n})
      /\ last' = [how |-> "fs.clear", by |-> NoThread, key |-> 0,
                  val |-> IF n = Len(order) THEN "True" ELSE "False", ret |-> Returned]

\* A file of the directory gets damaged (a crash, a full disk, another
\* program).
Corrupt(k, kind) ==
  /\ k \in DOMAIN disk
  /\ k \notin DOMAIN damage
  /\ damage' = [kk \in (DOMAIN damage) \cup {k} |-> IF kk = k THEN kind ELSE damage[kk]]
  /\ last' = NoResult
  /\ UNCHANGED disk

restFault == <<mem, memDefault, fsDefault, tier, hTier, cacheTimeout, refresh, lockOwner,
               lockCount, pc, key, scope, hOrch, hOnce, keyed, memThreshold>>

InitFault ==
  /\ InitTier
  /\ tier = "disk"
  /\ memDefault = Secs(DEFAULT_TIMEOUT)
  /\ fsDefault = Secs(DEFAULT_TIMEOUT)

NextFault ==
  \/ \E d \in TierJumps : Tick(d) /\ last' = NoResult /\ UNCHANGED <<disk, damage, restFault>>
  \/ \E k \in Keys, f \in GetFaults : Faulty_get(k, f) /\ UNCHANGED <<now, nticks, restFault>>
  \/ \E k \in Keys, f \in GetFaults : Faulty_has(k, f) /\ UNCHANGED <<now, nticks, restFault>>
  \/ \E k \in Keys, v \in FaultValues, t \in FaultTimeouts, f \in SetFaults :
       Faulty_set("fs.set", k, v, t, f) /\ UNCHANGED <<now, nticks, restFault>>
  \/ \E k \in Keys, v \in FaultValues, t \in FaultTimeouts, f \in SetFaults :
       Faulty_add(k, v, t, f) /\ UNCHANGED <<now, nticks, restFault>>
  \/ \E k \in Keys, f \in RemoveFaults : Faulty_delete(k, f) /\ UNCHANGED <<now, nticks, restFault>>
  \/ \E f \in RemoveFaults : Faulty_clear(f) /\ UNCHANGED <<now, nticks, restFault>>
  \/ \E k \in Keys, kind \in Damages : Corrupt(k, kind) /\ UNCHANGED <<now, nticks, restFault>>

SpecFault == InitFault /\ [][NextFault]_vars

(* C13 (as claimed; broken).  No call on the disk tier raises because of a
   storage or decoding fault: with a damaged file or a failing I/O step, get
   returns None, has returns False, set, add, delete and clear return a
   boolean, and a set or add that returns True has left the key's file
   whole, holding what was to be stored. *)
C13_NeverRaises ==
  last.how \in {"fs.get", "fs.has", "fs.set", "fs.add", "fs.delete", "fs.clear"} =>
    /\ last.ret # Raised
    /\ (last.how = "fs.get" /\ last.key \in DOMAIN damage) => last.val = None
    /\ (last.how = "fs.has" /\ last.key \in DOMAIN damage) => last.val = "False"
    /\ last.how \in {"fs.set", "fs.add", "fs.delete", "fs.clear"} => last.val \in {"True", "False"}
    /\ (last.how \in {"fs.set", "fs.add"} /\ last.val = "True") =>
         last.key \in DOMAIN disk /\ last.key \notin DOMAIN damage

(* C17 (as claimed; broken).  A set on a key whose file is missing or whole
   leaves the file missing or whole - holding what it held, or what this set
   stores; a set that does not return True leaves the file exactly as it was,
   and a set that returns True leaves it whole with the new content. *)
C17_AllOrNothing ==
  [][(last'.how = "fs.set" /\ last'.key \notin DOMAIN damage) =>
       LET k == last'.key
           same == /\ (k \in DOMAIN disk') = (k \in DOMAIN disk)
                   /\ k \in DOMAIN disk => disk'[k] = disk[k]
                   /\ k \notin DOMAIN damage'
       IN  /\ k \in DOMAIN disk' => k \notin DOMAIN damage'
           /\ IF last'.ret = Returned /\ last'.val = "True"
              THEN k \in DOMAIN disk' /\ k \notin DOMAIN damage'
              ELSE same
     ]_vars

\* ------------------------------- TLCache through the BaseCache API
\* TLCache defines set and clearall; get is the one it inherits.
\* BaseCache.get: return None
BaseCache_get(k) == None

TLCache_get(k) ==
  /\ last' = [how |-> "get", by |-> NoThread, key |-> k, val |-> BaseCache_get(k)]
  /\ UNCHANGED <<mem, disk, refresh, lockOwner, lockCount, pc, key, scope>>

\* set(key, value, T): the timeouts given in this scenario.
ApiTimeouts == Timeouts \ {TNone}

restApi == <<memDefault, fsDefault, tier, cacheTimeout, hOrch, hOnce, auxVars>>

InitApi == Init

\* hTier.mem keeps, for each key, the set that stored the entry now in the
\* memory tier.
NextApi ==
  \/ \E d \in OrchJumps : Pass(d) /\ UNCHANGED <<hTier, restApi>>
  \/ \E k \in Keys, v \in SetValues, t \in ApiTimeouts :
       /\ TLCache_set(k, v, t)
       /\ hTier' = [hTier EXCEPT !.mem = Stamped(@, mem', k, v, t, memDefault)]
       /\ UNCHANGED <<now, nticks, restApi>>
  \/ \E k \in Keys : TLCache_get(k) /\ UNCHANGED <<now, nticks, hTier, restApi>>
  \/ TLCache_clearall /\ hTier' = [hTier EXCEPT !.mem = EmptyStore] /\ UNCHANGED <<now, nticks, restApi>>

SpecApi == InitApi /\ [][NextApi]_vars

(* C14 (as claimed; broken).  On a TLCache, get(key) called after
   set(key, value, T) with T > 0 has returned, before T has elapsed and with
   no delete, clear or prune of the key since, returns value. *)
C14_GetAfterSet ==
  (last.how = "get" /\ last.key \in DOMAIN hTier.mem) =>
    LET s == hTier.mem[last.key] IN
    (s.ttl > 0 /\ now < s.at + s.ttl) => last.val = s.val

\* ------------------------------ more claims on the orchestrator (Spec)

(* C15 (as claimed; broken).  Right after a degraded-mode fallback, the entry
   republished for the key expires, in the memory tier and in the disk tier
   alike, within the degraded ceiling of 5 seconds and within the requested
   timeout when that is a positive number - whether the decorator's timeout
   is positive, 0 or left unspecified. *)
C15_DegradedLifetime ==
  last.how = "degraded" =>
    LET cap == IF cacheTimeout > 0 /\ cacheTimeout < Secs(DEGRADED_CEILING)
               THEN cacheTimeout ELSE Secs(DEGRADED_CEILING)
        m == mem[last.key]
        d == disk[last.key]
    IN  /\ m.exp # 0 /\ m.exp - now <= cap
        /\ d.exp # 0 /\ d.exp - now <= cap

(* C16 (as claimed; a nested scope breaks it).  The refresh flag is true
   exactly when some with_refresh scope has been entered and not yet left,
   and then the lock is held by the thread that is inside the scope. *)
C16_RefreshFlag ==
  /\ refresh <=> (\E t \in Threads : scope[t] > 0)
  /\ refresh => \E t \in Threads : scope[t] > 0 /\ lockOwner = t

\* ------------------- set and add on a tier that can hold a few entries
\* A tier with threshold StoreThreshold, used with NumStoreKeys keys, so that
\* a prune pass meets entries at the indices 0 to 3.
StoreKeys == 1..NumStoreKeys
StoreTimeouts == {0, 2}
StoreValues == {"1"}

\* SimpleCache.add: the expiration, the prune pass, then the key is stored
\* unless the dict has it.
SimpleAdd(c, k, v, timeout, default, threshold, order, t) ==
  LET expires == SimpleGetExpiration(timeout, default, t)
      pruned == SimplePrune(c, order, threshold, t)
  IN  IF k \in DOMAIN pruned
      THEN [store |-> pruned, ret |-> "False"]
      ELSE [store |-> [kk \in (DOMAIN pruned) \cup {k} |->
                         IF kk = k THEN [exp |-> expires, val |-> v] ELSE pruned[kk]],
            ret |-> "True"]

\* FileSystemCache.add: set, unless the file exists.
FSAdd(d, k, v, timeout, default, threshold, order, t) ==
  IF k \notin DOMAIN d
  THEN [store |-> FSSet(d, k, v, timeout, default, threshold, order, t), ret |-> "True"]
  ELSE [store |-> d, ret |-> "False"]

\* What a call on a tier gave: the call, its key and value, what it returned
\* and how many entries the tier held when it was made.
Done(op, k, v, ret, size) ==
  [how |-> op, by |-> NoThread, key |-> k, val |-> v, ret |-> ret, size |-> size]

Mem_set(k, v, timeout) ==
  \E order \in ListOrders(DOMAIN mem, StoreThreshold) :
    /\ mem' = SimpleSet(mem, k, v, timeout, memDefault, StoreThreshold, order, now)
    /\ last' = Done("mem.set", k, v, "True", Cardinality(DOMAIN mem))
    /\ UNCHANGED disk

Mem_add(k, v, timeout) ==
  \E order \in ListOrders(DOMAIN mem, StoreThreshold) :
    LET r == SimpleAdd(mem, k, v, timeout, memDefault, StoreThreshold, order, now) IN
    /\ mem' = r.store
    /\ last' = Done("mem.add", k, v, r.ret, Cardinality(DOMAIN mem))
    /\ UNCHANGED disk

Fs_set(k, v, timeout) ==
  \E order \in ListOrders(DOMAIN disk, StoreThreshold) :
    /\ disk' = FSSet(disk, k, v, timeout, fsDefault, StoreThreshold, order, now)
    /\ last' = Done("fs.set", k, v, "True", Cardinality(DOMAIN disk))
    /\ UNCHANGED mem

Fs_add(k, v, timeout) ==
  \E order \in ListOrders(DOMAIN disk, StoreThreshold) :
    LET r == FSAdd(disk, k, v, timeout, fsDefault, StoreThreshold, order, now) IN
    /\ disk' = r.store
    /\ last' = Done("fs.add", k, v, r.ret, Cardinality(DOMAIN disk))
    /\ UNCHANGED mem

restStore == <<memDefault, fsDefault, tier, hTier, cacheTimeout, refresh, lockOwner,
               lockCount, pc, key, scope, hOrch, hOnce, auxVars>>

InitStore ==
  /\ InitTier
  /\ memDefault = Secs(DEFAULT_TIMEOUT)
  /\ fsDefault = Secs(DEFAULT_TIMEOUT)

NextStore ==
  \/ Tick(1) /\ last' = NoResult /\ UNCHANGED <<mem, disk, restStore>>
  \/ tier = "memory" /\ \E k \in StoreKeys, v \in StoreValues, t \in StoreTimeouts :
       Mem_set(k, v, t) /\ UNCHANGED <<now, nticks, restStore>>
  \/ tier = "memory" /\ \E k \in StoreKeys, v \in StoreValues, t \in StoreTimeouts :
       Mem_add(k, v, t) /\ UNCHANGED <<now, nticks, restStore>>
  \/ tier = "disk" /\ \E k \in StoreKeys, v \in StoreValues, t \in StoreTimeouts :
       Fs_set(k, v, t) /\ UNCHANGED <<now, nticks, restStore>>
  \/ tier = "disk" /\ \E k \in StoreKeys, v \in StoreValues, t \in StoreTimeouts :
       Fs_add(k, v, t) /\ UNCHANGED <<now, nticks, restStore>>

SpecStore == InitStore /\ [][NextStore]_vars

(* C18 (as claimed; broken).  SimpleCache.add(key, value, timeout) inserts
   and returns True exactly when get(key) would report the key absent at the
   moment of the call (missing, or expired but still stored), and get(key)
   then returns value; otherwise it returns False and leaves the store as it
   was, no entry altered and none removed. *)
C18_AddWhenAbsent ==
  [][last'.how = "mem.add" =>
       LET k == last'.key IN
       IF SimpleGet(mem, k, now) = None
       THEN last'.ret = "True" /\ SimpleGet(mem', k, now) = last'.val
       ELSE last'.ret = "False" /\ mem' = mem
     ]_vars

\* The claimed effect on a store s, left as s2, of writing key k with
\* threshold n: over the threshold, one pass in some enumeration order removes
\* exactly the expired entries and those at the indices 0, 3, 6, ...; at or
\* under it, nothing is removed; k is present afterwards, the others kept are
\* as they were.
PrunedThenWritten(s, s2, k, n) ==
  /\ k \in DOMAIN s2
  /\ \A kk \in (DOMAIN s2) \ {k} : kk \in DOMAIN s /\ s2[kk] = s[kk]
  /\ IF Cardinality(DOMAIN s) > n
     THEN \E order \in Orders(DOMAIN s) :
            DOMAIN s2 =
              ((DOMAIN s) \ {order[i] : i \in {j \in 1..Len(order) :
                               \/ (s[order[j]].exp # 0 /\ s[order[j]].exp <= now)
                               \/ (j - 1) % 3 = 0}})
              \cup {k}
     ELSE DOMAIN s2 = (DOMAIN s) \cup {k}

(* C19 (as claimed).  In each tier, a set or add made while the store holds
   more entries than the threshold first runs one prune pass, in a fixed
   enumeration order, that removes exactly the entries that are expired or
   whose index is a multiple of 3; a set or add made at or under the threshold
   removes nothing; and the key written is present right after the call. *)
C19_PrunePass ==
  [][/\ last'.how \in {"mem.set", "mem.add"} =>
          PrunedThenWritten(mem, mem', last'.key, StoreThreshold)
     /\ last'.how \in {"fs.set", "fs.add"} =>
          PrunedThenWritten(disk, disk', last'.key, StoreThreshold)
     ]_vars

(* C19 (amended).  The same for every set, every SimpleCache.add, and every
   FileSystemCache.add of a key that has no file; a FileSystemCache.add of a
   key whose file exists returns False at once: it runs no prune pass and
   leaves the directory as it was, the key's file present. *)
C19_PrunePassUnlessFileExists ==
  [][/\ last'.how \in {"mem.set", "mem.add"} =>
          PrunedThenWritten(mem, mem', last'.key, StoreThreshold)
     /\ last'.how \in {"fs.set", "fs.add"} =>
          IF last'.how = "fs.add" /\ last'.key \in DOMAIN disk
          THEN disk' = disk /\ last'.ret = "False"
          ELSE PrunedThenWritten(disk, disk', last'.key, StoreThreshold)
     ]_vars

\* A set made over the threshold when nothing had expired has evicted two
\* live entries: those at the indices 0 and 3.
C19_Witness ==
  /\ last.how = "mem.set"
  /\ last.size > StoreThreshold
  /\ nticks = 0
  /\ Cardinality(DOMAIN mem) < last.size - 1

\* ------------------- one FileSystemCache used by several threads at once
\* set, delete and clear run under FileSystemCache.lock, one at a time; get
\* and has take no lock, and do their work in two steps: the file is opened
\* and its expiration read, then - if that had passed - os.remove(filename)
\* removes whatever file has that name by then.  pc[t] is "removing" between
\* the two.  hTier.disk keeps the set that stored each entry until a delete,
\* a clear, a prune, a later set, or the removal of the file once expired.
RaceTimeouts == {0, 2}

Race_read(t, k) ==
  /\ pc[t] = "idle"
  /\ IF k \in DOMAIN disk /\ ~FSLive(disk[k], now)
     THEN /\ pc' = [pc EXCEPT ![t] = "removing"]
          /\ key' = [key EXCEPT ![t] = k]
          /\ last' = NoResult
     ELSE /\ last' = [how |-> "fs.get", by |-> t, key |-> k, val |-> FSGet(disk, k, now)]
          /\ UNCHANGED <<pc, key>>
  /\ UNCHANGED <<disk, hTier>>

Race_remove(t) ==
  /\ pc[t] = "removing"
  /\ disk' = Without(disk, {key[t]})
  /\ hTier' = IF key[t] \in DOMAIN disk /\ FSLive(disk[key[t]], now)
              THEN hTier
              ELSE [hTier EXCEPT !.disk = Kept(@, disk')]
  /\ last' = [how |-> "fs.get", by |-> t, key |-> key[t], val |-> None]
  /\ pc' = [pc EXCEPT ![t] = "idle"]
  /\ key' = [key EXCEPT ![t] = 1]

restRace == <<mem, memDefault, fsDefault, tier, cacheTimeout, refresh, lockOwner,
              lockCount, scope, hOrch, hOnce, auxVars>>

InitRace ==
  /\ InitTier
  /\ tier = "disk"
  /\ memDefault = Secs(DEFAULT_TIMEOUT)
  /\ fsDefault = Secs(DEFAULT_TIMEOUT)

NextRace ==
  \/ Tick(1) /\ last' = NoResult /\ UNCHANGED <<disk, hTier, pc, key, restRace>>
  \/ \E k \in Keys, v \in SetValues, t \in RaceTimeouts :
       /\ FileSystemCache_set(k, v, t)
       /\ last' = NoResult
       /\ UNCHANGED <<now, nticks, pc, key, cacheTimeout, refresh, lockOwner,
                      lockCount, scope, hOrch, hOnce, auxVars>>
  \/ \E t \in Threads, k \in Keys : Race_read(t, k) /\ UNCHANGED <<now, nticks, restRace>>
  \/ \E t \in Threads : Race_remove(t) /\ UNCHANGED <<now, nticks, restRace>>

SpecRace == InitRace /\ [][NextRace]_vars

(* C20 (as claimed; broken).  With several threads using one
   FileSystemCache, an entry written by a set that returned True, and not
   since expired (by the expiration the set stored) nor touched by a delete,
   clear, prune or later set, is returned by get: no get or has running in
   another thread removes it. *)
C20_LiveEntryKept ==
  \A k \in DOMAIN hTier.disk :
    LET s == hTier.disk[k]
        expires == IF s.ttl = 0 THEN 0 ELSE IntTrunc(s.at + s.ttl)
    IN  (expires = 0 \/ now <= expires) => FSGet(disk, k, now) = s.val

\* ------------------------ a SimpleCache of any threshold, all its calls
\* SimpleCache(threshold=N) for N from 0 to StoreThreshold, and then any
\* sequence of set, add, get, has, delete and clear.
Thresholds == 0..StoreThreshold

Sized_set(k, v, timeout) ==
  \E order \in ListOrders(DOMAIN mem, memThreshold) :
    /\ mem' = SimpleSet(mem, k, v, timeout, memDefault, memThreshold, order, now)
    /\ last' = Done("mem.set", k, v, "True", Cardinality(DOMAIN mem))

Sized_add(k, v, timeout) ==
  \E order \in ListOrders(DOMAIN mem, memThreshold) :
    LET r == SimpleAdd(mem, k, v, timeout, memDefault, memThreshold, order, now) IN
    /\ mem' = r.store
    /\ last' = Done("mem.add", k, v, r.ret, Cardinality(DOMAIN mem))

\* get and has read the dict and leave it as it is, expired entries too.
Sized_get(k) ==
  /\ last' = Done("mem.get", k, SimpleGet(mem, k, now), Returned, Cardinality(DOMAIN mem))
  /\ UNCHANGED mem

Sized_has(k) ==
  /\ last' = Done("mem.has", k, IF SimpleHas(mem, k, now) THEN "True" ELSE "False",
                  Returned, Cardinality(DOMAIN mem))
  /\ UNCHANGED mem

\* self._cache.pop(key, None) is not None
Sized_delete(k) ==
  /\ mem' = Without(mem, {k})
  /\ last' = Done("mem.delete", k, IF k \in DOMAIN mem THEN "True" ELSE "False",
                  Returned, Cardinality(DOMAIN mem))

\* self.clear = self._cache.clear
Sized_clear ==
  /\ mem' = EmptyStore
  /\ last' = Done("mem.clear", 0, None, Returned, Cardinality(DOMAIN mem))

restSized == <<disk, memDefault, fsDefault, tier, hTier, cacheTimeout, refresh, lockOwner,
               lockCount, pc, key, scope, hOrch, hOnce, auxVars>>

InitSized ==
  /\ now = Secs(StartSec)
  /\ nticks = 0
  /\ mem = EmptyStore
  /\ disk = EmptyStore
  /\ memDefault = Secs(DEFAULT_TIMEOUT)
  /\ fsDefault = Secs(DEFAULT_TIMEOUT)
  /\ tier = "memory"
  /\ hTier = [mem |-> EmptyStore, disk |-> EmptyStore]
  /\ InitThreads
  /\ cacheTimeout = TNone
  /\ damage = NoDamage
  /\ keyed = NoKeyed
  /\ memThreshold \in Thresholds

NextSized ==
  \/ Tick(1) /\ last' = NoResult /\ UNCHANGED <<mem, restSized>>
  \/ \E k \in StoreKeys, v \in StoreValues, t \in StoreTimeouts :
       Sized_set(k, v, t) /\ UNCHANGED <<now, nticks, restSized>>
  \/ \E k \in StoreKeys, v \in StoreValues, t \in StoreTimeouts :
       Sized_add(k, v, t) /\ UNCHANGED <<now, nticks, restSized>>
  \/ \E k \in StoreKeys : Sized_get(k) /\ UNCHANGED <<now, nticks, restSized>>
  \/ \E k \in StoreKeys : Sized_has(k) /\ UNCHANGED <<now, nticks, restSized>>
  \/ \E k \in StoreKeys : Sized_delete(k) /\ UNCHANGED <<now, nticks, restSized>>
  \/ Sized_clear /\ UNCHANGED <<now, nticks, restSized>>

SpecSized == InitSized /\ [][NextSized]_vars

(* C21.  After any sequence of set, add, get, has, delete and clear on a
   SimpleCache with threshold N, the number of entries stored - live ones and
   expired ones not yet removed - is at most N + 1. *)
C21_SizeBound ==
  Cardinality(DOMAIN mem) <= memThreshold + 1

\* A set made when the cache held N + 1 entries, one of them expired and
\* still stored, has pruned and left N + 1 entries or fewer; here N + 1 again.
C21_Witness ==
  /\ last.how = "mem.set"
  /\ last.size = memThreshold + 1
  /\ Cardinality(DOMAIN mem) = memThreshold + 1
  /\ memThreshold > 0
  /\ nticks > 0

====
